---- MODULE Spec2Model ----
(***************************************************************************)
(* Control and data flow of the two training scripts of                    *)
(* tensorflow-examples:                                                    *)
(*   converted_notebooks/dcgan.py              (script "dcgan")            *)
(*   text_and_visualizations/nmt_with_attention.py                         *)
(*       main()                                (script "nmt")              *)
(*       train_step, loss_function, evaluate and translate, each called    *)
(*       on its own   (scripts "train_step", "loss_function", "evaluate",  *)
(*       "translate")                                                      *)
(*                                                                         *)
(* Tensors are abstracted: a model's parameter set is the number of        *)
(* optimizer updates it has received, a batch is its number of examples.   *)
(* Calls into the external libraries (forward pass on the data, savefig,   *)
(* checkpoint.save) either return or raise; a raise is never caught by the *)
(* scripts, so it ends the run in pc = "Fault".                            *)
(***************************************************************************)
EXTENDS Integers, Sequences, FiniteSets, TLC

\* ---------------------------------------------------------------- bounds
\* largest number of full batches of a modelled dataset
MaxFullBatches == 2
\* train(dataset, epochs) is modelled for epochs in 0..MaxEpochsArg and EPOCHS
MaxEpochsArg == 16
\* words of the target vocabulary besides '<start>' and '<end>'
MaxWords == 2
\* loss_function: largest number of positions of one timestep
MaxRows == 2
\* loss_function: largest per-token cross-entropy
MaxXent == 2
\* evaluate: largest max_length_targ
MaxLengthTarg == 3
\* train_step: largest width targ.shape[1] of a target batch
MaxTargLen == 3

\* preprocess_sentence: longest sentence besides the one of main()
MaxSentenceLen == 3
\* BahdanauAttention.call: largest batch size
MaxBatch == 2
\* BahdanauAttention.call: largest max_length of the encoder output
MaxSeqLen == 2
\* BahdanauAttention.call: largest value of the encoder output
MaxValue == 1
\* the pre-activations of the generator's last layer lie in
\* -MaxPreActivation..MaxPreActivation
MaxPreActivation == 2

\* ------------------------------------------------------ dcgan.py constants
BUFFER_SIZE == 60000
BATCH_SIZE == 256
EPOCHS == 50
NOISE_DIM == 100
NUM_EXAMPLES_TO_GENERATE == 16
\* dcgan.py:318  if (epoch + 1) % 15 == 0
SAVE_EVERY == 15

\* ------------------------------------------ nmt_with_attention.py constants
NMT_BATCH_SIZE == 64
NMT_EPOCHS == 10

\* Python's None
None == [none |-> TRUE]
\* a name that is not bound yet (names that will hold a sequence or a number
\* start as the empty sequence and as 0)
Unset == [unset |-> TRUE]

VARIABLES
    script,                  \* which script runs
    pc,                      \* position of the run in main()/train()
    num_examples,            \* len of the array given to from_tensor_slices
    shape_ok,                \* the examples fit the models' input contract
    epochs,                  \* train()'s argument
    epoch,                   \* loop variable of "for epoch in range(epochs)"
    batch,                   \* batches of the current epoch already drawn
    step,                    \* the train_step call in progress, or None
    generator,               \* generator.trainable_variables (version)
    discriminator,           \* discriminator.trainable_variables (version)
    generator_optimizer,     \* its iteration count
    discriminator_optimizer, \* its iteration count
    save_counter,            \* checkpoint.save_counter
    saved,                   \* the checkpoints written, oldest first
    images,                  \* epoch labels e with a file image_at_epoch_e.png
    stepsIn,                 \* history: train steps finished, per epoch label
    consumed,                \* history: times batch i was handed to train_step
                             \*          in the current epoch
    lastStep,                \* history: the last finished train_step
    encoder,                 \* encoder.trainable_variables (version)
    decoder,                 \* decoder.trainable_variables (version)
    optimizer,               \* the NMT optimizer's iteration count
    targ,                    \* train_step: the target batch, one column per t
    t,                       \* loop variable of the decode loops
    dec_input,               \* the decoder's next input
    loss,                    \* train_step: the losses of the timesteps so far
    batch_loss,              \* train_step: its return value
    dec_inputs,              \* history: the inputs the decoder was called with
    real,                    \* loss_function: the target ids of one timestep
    xent,                    \* loss_function: loss_object(real, pred)
    loss_,                   \* loss_function: the per-token loss after masking
    mean_loss,               \* loss_function: its return value
    max_length_targ,         \* evaluate: the longest target sentence
    words_known,             \* evaluate: every input word is in inp_lang
    result,                  \* evaluate: the words decoded so far
    latest_checkpoint,       \* dcgan main: what latest_checkpoint() returned
    filenames,               \* dcgan main: sorted(glob("image*.png"))
    idx,                     \* dcgan main: i of "for i, filename in enumerate"
    last,                    \* dcgan main: the frame index appended last
    writer,                  \* dcgan main: the GIF writer and the files appended
    noise,                   \* dcgan main: the shape of the noise batch
    output_shape,            \* make_generator_model: model.output_shape at
                             \*     each assert
    generated_image,         \* dcgan main: generator(noise, training=False)
    values,                  \* BahdanauAttention.call: the encoder output
    score,                   \* BahdanauAttention.call: one score per position
    attention_weights,       \* BahdanauAttention.call: softmax of the scores
    context_vector,          \* BahdanauAttention.call: the weighted sum
    sentence,                \* preprocess_sentence: its argument
    w                        \* preprocess_sentence: its return value

vars == <<script, pc, num_examples, shape_ok, epochs, epoch, batch, step,
          generator, discriminator, generator_optimizer,
          discriminator_optimizer, save_counter, saved, images, stepsIn,
          consumed, lastStep, encoder, decoder, optimizer, targ, t,
          dec_input, loss, batch_loss, dec_inputs, real, xent, loss_,
          mean_loss, max_length_targ, words_known, result,
          latest_checkpoint, filenames, idx, last, writer, noise,
          output_shape, generated_image, values, score, attention_weights,
          context_vector, sentence, w>>

inputVars == <<script, num_examples, shape_ok, epochs>>
modelVars == <<generator, discriminator, generator_optimizer,
               discriminator_optimizer>>
ckptVars == <<save_counter, saved>>
\* the variables that only the NMT script and its functions use
nmtModel == <<encoder, decoder, optimizer>>
stepVars == <<targ, loss, batch_loss>>
decodeVars == <<t, dec_input, dec_inputs>>
lossVars == <<real, xent, loss_, mean_loss>>
evalVars == <<max_length_targ, words_known, result>>
nmtVars == <<nmtModel, stepVars, decodeVars, lossVars, evalVars>>
\* the GIF loop of dcgan main
gifVars == <<filenames, idx, last, writer>>
\* the generator's construction and first use in dcgan main
genVars == <<noise, output_shape, generated_image>>
attnVars == <<values, score, attention_weights, context_vector>>
prepVars == <<sentence, w>>
\* the variables of the functions that are run on their own
fnVars == <<genVars, attnVars, prepVars>>
\* the variables that train() and the NMT training functions leave alone
otherVars == <<fnVars, gifVars, latest_checkpoint>>
\* the variables that only train() and the restore of dcgan.py use
ganVars == <<shape_ok, epochs, step, modelVars, ckptVars, images, stepsIn,
             consumed, lastStep>>

\* ------------------------------------------------------------ the dataset
\* mutant of Batches: the remainder is kept although drop_remainder is set
BatchesKeepRemainder(n, batch_size, drop_remainder) ==
    LET full == n \div batch_size
        rest == n % batch_size
    IN  [i \in 1..full |-> batch_size]
          \o (IF rest > 0 THEN <<rest>> ELSE <<>>)

\* Dataset.batch(batch_size, drop_remainder): the sizes of the batches that
\* one pass over n examples yields.
Batches(n, batch_size, drop_remainder) ==
    LET full == n \div batch_size
        rest == n % batch_size
    IN  [i \in 1..full |-> batch_size]
          \o (IF rest > 0 /\ ~drop_remainder THEN <<rest>> ELSE <<>>)

\* dcgan.py:218-220  from_tensor_slices(train_images).shuffle(..).batch(BATCH_SIZE)
train_dataset == Batches(num_examples, BATCH_SIZE, FALSE)

\* sizes of the modelled example arrays: k full batches plus nothing or the
\* remainder that the 60000 MNIST images leave
ExampleCounts ==
    {k * BATCH_SIZE + r : k \in 0..MaxFullBatches,
                          r \in {0, BUFFER_SIZE % BATCH_SIZE}}

EpochArgs == (0..MaxEpochsArg) \cup {EPOCHS}

\* a tensor shape: the batch axis is <<>> for Keras' None (any batch size)
\* and <<n>> for n, dims are the other axes
Shape(batch_axis, dims) == [batch |-> batch_axis, dims |-> dims]

PreActivations == (0 - MaxPreActivation)..MaxPreActivation

\* the noise batches of dcgan.py: tf.random.normal([1, 100]) at line 224,
\* SEED at line 53, the batch of train_step at line 277, and a batch of
\* another width than the generator takes
NoiseShapes ==
    {Shape(<<n>>, <<d>>) : n \in {1, NUM_EXAMPLES_TO_GENERATE, BATCH_SIZE},
                          d \in {NOISE_DIM, NOISE_DIM - 1}}

\* ------------------------------------------------------------ dcgan.py
RECURSIVE SumSeq(_)
SumSeq(s) == IF s = <<>> THEN 0 ELSE s[1] + SumSeq(Tail(s))

RECURSIVE Product(_)
Product(s) == IF s = <<>> THEN 1 ELSE s[1] * Product(Tail(s))

\* dcgan.py:68-97  the layers of the generator, in the order of model.add
generator_layers ==
    << [layer |-> "Dense", units |-> 7 * 7 * 256, input_shape |-> <<100>>],
       [layer |-> "BatchNormalization"],
       [layer |-> "LeakyReLU"],
       [layer |-> "Reshape", target_shape |-> <<7, 7, 256>>],
       [layer |-> "Conv2DTranspose", filters |-> 128, kernel_size |-> 5,
        strides |-> 1, padding |-> "same", activation |-> "linear"],
       [layer |-> "BatchNormalization"],
       [layer |-> "LeakyReLU"],
       [layer |-> "Conv2DTranspose", filters |-> 64, kernel_size |-> 5,
        strides |-> 2, padding |-> "same", activation |-> "linear"],
       [layer |-> "BatchNormalization"],
       [layer |-> "LeakyReLU"],
       [layer |-> "Conv2DTranspose", filters |-> 1, kernel_size |-> 5,
        strides |-> 2, padding |-> "same", activation |-> "tanh"] >>

\* dcgan.py:73, 80, 89, 98  the asserts on model.output_shape: the number
\* of layers added so far and the shape asserted
generator_asserts ==
    << [layers |-> 4, shape |-> Shape(<<>>, <<7, 7, 256>>)],
       [layers |-> 5, shape |-> Shape(<<>>, <<7, 7, 128>>)],
       [layers |-> 8, shape |-> Shape(<<>>, <<14, 14, 64>>)],
       [layers |-> 11, shape |-> Shape(<<>>, <<28, 28, 1>>)] >>

\* mutant of ConvTransposeLength: padding="valid" whatever was asked
ConvTransposeLengthValid(n, kernel_size, stride, padding) ==
    n * stride + (IF kernel_size > stride THEN kernel_size - stride ELSE 0)

\* the length of an axis after Conv2DTranspose (dcgan.py:75-97)
ConvTransposeLength(n, kernel_size, stride, padding) ==
    IF padding = "same"
    THEN n * stride
    ELSE n * stride + (IF kernel_size > stride THEN kernel_size - stride ELSE 0)

\* the output shape of one layer on an input of shape sh; a Dense layer on
\* an input of another width than it was built for, and a Reshape to another
\* number of elements, raise (None)
LayerShape(l, sh) ==
    CASE l.layer = "Dense" ->
           IF sh.dims[Len(sh.dims)] = l.input_shape[1]
           THEN Shape(sh.batch, SubSeq(sh.dims, 1, Len(sh.dims) - 1)
                                    \o <<l.units>>)
           ELSE None
      [] l.layer = "Reshape" ->
           IF Product(sh.dims) = Product(l.target_shape)
           THEN Shape(sh.batch, l.target_shape)
           ELSE None
      [] l.layer = "Conv2DTranspose" ->
           Shape(sh.batch,
                 <<ConvTransposeLength(sh.dims[1], l.kernel_size, l.strides,
                                       l.padding),
                   ConvTransposeLength(sh.dims[2], l.kernel_size, l.strides,
                                       l.padding),
                   l.filters>>)
      [] OTHER -> sh

\* the output shape of the first k layers of a Sequential model on an input
\* of shape sh
RECURSIVE SequentialShape(_, _, _)
SequentialShape(layers, k, sh) ==
    IF k = 0
    THEN sh
    ELSE LET below == SequentialShape(layers, k - 1, sh)
         IN  IF below = None THEN None ELSE LayerShape(layers[k], below)

\* tanh, in thousandths, of the integers; beyond 3 it is within a thousandth
\* of 1
tanh(x) ==
    LET a == IF x < 0 THEN 0 - x ELSE x
        s == IF x < 0 THEN 0 - 1 ELSE 1
    IN  [num |-> s * (CASE a = 0 -> 0 [] a = 1 -> 762 [] a = 2 -> 964
                        [] a = 3 -> 995 [] OTHER -> 999),
         den |-> 1000]

\* the activation of a layer applied to the value x
Activation(name, x) ==
    IF name = "tanh" THEN tanh(x) ELSE [num |-> x, den |-> 1]

\* dcgan.py:56-100  make_generator_model(): the layers are added and the
\* output shape is asserted four times; an assert that fails raises
MakeGeneratorModel ==
    /\ script = "make_generator_model"
    /\ pc = "Idle"
    /\ LET built == Shape(<<>>, generator_layers[1].input_shape)
           shapes == [k \in 1..Len(generator_asserts) |->
                         SequentialShape(generator_layers,
                                         generator_asserts[k].layers, built)]
       IN  /\ output_shape' = shapes
           /\ pc' = IF \A k \in 1..Len(generator_asserts) :
                          shapes[k] = generator_asserts[k].shape
                    THEN "Built" ELSE "Fault"
    /\ UNCHANGED <<script, num_examples, epoch, batch, ganVars, nmtVars,
                   gifVars, latest_checkpoint, noise, generated_image,
                   attnVars, prepVars>>

\* dcgan.py:224-225  generated_image = generator(noise, training=False): the
\* shape that the layers give the noise batch, and the values that the last
\* layer's activation gives its pre-activations, whatever those are
GeneratorCall ==
    /\ script = "make_generator_model"
    /\ pc = "Built"
    /\ LET sh == SequentialShape(generator_layers, Len(generator_layers),
                                 noise)
           out == generator_layers[Len(generator_layers)].activation
       IN  IF sh = None
           THEN /\ generated_image' = generated_image
                /\ pc' = "Fault"
           ELSE /\ \E pre \in (SUBSET PreActivations) \ {{}} :
                     generated_image' =
                         [shape |-> sh,
                          values |-> {Activation(out, x) : x \in pre}]
                /\ pc' = "Returned"
    /\ UNCHANGED <<script, num_examples, epoch, batch, ganVars, nmtVars,
                   gifVars, latest_checkpoint, noise, output_shape, attnVars,
                   prepVars>>

\* dcgan.py:277-291  the noise batch, the forward pass under both tapes and
\* the two gradients, as read from generator version g and discriminator
\* version d with an image batch of n examples.
\* mutant of TapeGradients: the discriminator's gradient is taken after the
\* generator's update has been applied
TapeGradientsAfterUpdate(g, d, n) ==
    [images_n |-> n,
     noise_n  |-> BATCH_SIZE,
     gradients_of_generator     |-> [gen |-> g, disc |-> d],
     gradients_of_discriminator |-> [gen |-> g + 1, disc |-> d]]

TapeGradients(g, d, n) ==
    [images_n |-> n,
     noise_n  |-> BATCH_SIZE,
     gradients_of_generator     |-> [gen |-> g, disc |-> d],
     gradients_of_discriminator |-> [gen |-> g, disc |-> d]]

\* mutant of SaveDue: the loop variable is tested without the + 1
SaveDueLoopVar(e) == (e - 1) % SAVE_EVERY = 0

\* dcgan.py:318  the epoch just finished (counted from 1) is one to save
SaveDue(e) == e % SAVE_EVERY = 0

\* tf.train.Checkpoint(generator_optimizer, discriminator_optimizer,
\*                     generator, discriminator) as saved at dcgan.py:319
Snapshot(e) ==
    [epoch |-> e,
     generator |-> generator,
     discriminator |-> discriminator,
     generator_optimizer |-> generator_optimizer,
     discriminator_optimizer |-> discriminator_optimizer]

\* dcgan.py:327  main() calls train(train_dataset, EPOCHS); train is also
\* modelled for the other epoch counts of EpochArgs
Train ==
    /\ script = "dcgan"
    /\ pc = "Idle"
    /\ pc' = "EpochStart"
    /\ epoch' = 0
    /\ UNCHANGED <<nmtVars, otherVars, inputVars, batch, step, modelVars,
                   ckptVars, images, stepsIn, consumed, lastStep>>

\* mutant of InRange: the bound itself is still in the range
InRangeInclusive(i, n) == i <= n

\* dcgan.py:307  "for epoch in range(epochs)" has another value to yield
\* after i of them
InRange(i, n) == i < n

\* dcgan.py:307-310  for epoch in range(epochs): start = time.time();
\* the iterator over the dataset is created
EpochStart ==
    /\ script = "dcgan"
    /\ pc = "EpochStart"
    /\ InRange(epoch, epochs)
    /\ pc' = "BatchStep"
    /\ batch' = 0
    /\ consumed' = [i \in 1..Len(train_dataset) |-> 0]
    /\ UNCHANGED <<nmtVars, otherVars, inputVars, epoch, step, modelVars,
                   ckptVars, images, stepsIn, lastStep>>

\* dcgan.py:310-311, 277-291  the next batch is drawn and handed to
\* train_step, which runs the forward pass and takes both gradients; a batch
\* that does not fit the models raises in the forward pass
TrainStepTape ==
    /\ script = "dcgan"
    /\ pc = "BatchStep"
    /\ batch < Len(train_dataset)
    /\ batch' = batch + 1
    /\ consumed' = [consumed EXCEPT ![batch + 1] = @ + 1]
    /\ IF shape_ok
       THEN /\ step' = TapeGradients(generator, discriminator,
                                     train_dataset[batch + 1])
            /\ pc' = "Apply"
       ELSE /\ step' = None
            /\ pc' = "Fault"
    /\ UNCHANGED <<nmtVars, otherVars, inputVars, epoch, modelVars, ckptVars,
                   images, stepsIn, lastStep>>

\* mutant of TrainStepApply: the generator's gradients are zipped with the
\* discriminator's variables, so both optimizers update the discriminator
TrainStepApplyCross ==
    /\ script = "dcgan"
    /\ pc = "Apply"
    /\ generator' = generator
    /\ generator_optimizer' = generator_optimizer + 1
    /\ discriminator' = discriminator + 2
    /\ discriminator_optimizer' = discriminator_optimizer + 1
    /\ lastStep' = step
    /\ step' = None
    /\ stepsIn' = [stepsIn EXCEPT ![epoch + 1] = @ + 1]
    /\ pc' = "BatchStep"
    /\ UNCHANGED <<nmtVars, otherVars, inputVars, epoch, batch, ckptVars,
                   images, consumed>>

\* dcgan.py:293-298  both optimizers apply their gradients; train_step
\* returns
TrainStepApply ==
    /\ script = "dcgan"
    /\ pc = "Apply"
    /\ generator' = generator + 1
    /\ generator_optimizer' = generator_optimizer + 1
    /\ discriminator' = discriminator + 1
    /\ discriminator_optimizer' = discriminator_optimizer + 1
    /\ lastStep' = step
    /\ step' = None
    /\ stepsIn' = [stepsIn EXCEPT ![epoch + 1] = @ + 1]
    /\ pc' = "BatchStep"
    /\ UNCHANGED <<nmtVars, otherVars, inputVars, epoch, batch, ckptVars,
                   images, consumed>>

\* mutant of EndOfDataset: the batch loop is left after the first batch
EndOfDatasetEarly ==
    /\ script = "dcgan"
    /\ pc = "BatchStep"
    /\ batch >= 1
    /\ pc' = "EpochEnd"
    /\ UNCHANGED <<nmtVars, otherVars, inputVars, epoch, batch, step,
                   modelVars, ckptVars, images, stepsIn, consumed, lastStep>>

\* dcgan.py:310  the iterator over the dataset is exhausted
EndOfDataset ==
    /\ script = "dcgan"
    /\ pc = "BatchStep"
    /\ batch = Len(train_dataset)
    /\ pc' = "EpochEnd"
    /\ UNCHANGED <<nmtVars, otherVars, inputVars, epoch, batch, step,
                   modelVars, ckptVars, images, stepsIn, consumed, lastStep>>

\* dcgan.py:169-191  generate_and_save_images(model, epoch, test_input):
\* a forward pass in inference mode, then the figure is built (line 184
\* reads fig.figsize of the matplotlib figure) and written with savefig.
\* ok = FALSE: one of the library calls raised.
generate_and_save_images(label, ok, next_pc) ==
    IF ok
    THEN /\ images' = images \cup {label}
         /\ pc' = next_pc
    ELSE /\ images' = images
         /\ pc' = "Fault"

\* dcgan.py:313-318  the image of the epoch just finished, then the test of
\* the save interval
EpochEnd ==
    /\ script = "dcgan"
    /\ pc = "EpochEnd"
    /\ \E ok \in BOOLEAN :
         generate_and_save_images(epoch + 1, ok,
             IF SaveDue(epoch + 1) THEN "Checkpoint" ELSE "EpochTail")
    /\ UNCHANGED <<nmtVars, otherVars, inputVars, epoch, batch, step,
                   modelVars, ckptVars, stepsIn, consumed, lastStep>>

\* dcgan.py:319  checkpoint.save(file_prefix=checkpoint_prefix): the save
\* counter is incremented and the snapshot written; ok = FALSE: the write
\* raised
Checkpoint ==
    /\ script = "dcgan"
    /\ pc = "Checkpoint"
    /\ \E ok \in BOOLEAN :
         IF ok
         THEN /\ save_counter' = save_counter + 1
              /\ saved' = Append(saved, Snapshot(epoch + 1))
              /\ pc' = "EpochTail"
         ELSE /\ UNCHANGED ckptVars
              /\ pc' = "Fault"
    /\ UNCHANGED <<nmtVars, otherVars, inputVars, epoch, batch, step,
                   modelVars, images, stepsIn, consumed, lastStep>>

\* dcgan.py:321, 307  the time of the epoch is printed and range() yields the
\* next epoch
EpochTail ==
    /\ script = "dcgan"
    /\ pc = "EpochTail"
    /\ epoch' = epoch + 1
    /\ pc' = "EpochStart"
    /\ UNCHANGED <<nmtVars, otherVars, inputVars, batch, step, modelVars,
                   ckptVars, images, stepsIn, consumed, lastStep>>

\* dcgan.py:323-325  range(epochs) is exhausted: the image is generated once
\* more under the label epochs, and train returns
FinalImage ==
    /\ script = "dcgan"
    /\ pc = "EpochStart"
    /\ ~InRange(epoch, epochs)
    /\ \E ok \in BOOLEAN : generate_and_save_images(epochs, ok, "Done")
    /\ UNCHANGED <<nmtVars, otherVars, inputVars, epoch, batch, step,
                   modelVars, ckptVars, stepsIn, consumed, lastStep>>

\* mutant of Restore: the oldest checkpoint is taken for the latest
RestoreOldest ==
    /\ script = "dcgan"
    /\ pc = "Done"
    /\ IF saved = <<>>
       THEN /\ latest_checkpoint' = None
            /\ UNCHANGED modelVars
       ELSE LET ckpt == saved[1]
            IN  /\ latest_checkpoint' = ckpt
                /\ generator' = ckpt.generator
                /\ discriminator' = ckpt.discriminator
                /\ generator_optimizer' = ckpt.generator_optimizer
                /\ discriminator_optimizer' = ckpt.discriminator_optimizer
    /\ pc' = "Restored"
    /\ UNCHANGED <<nmtVars, fnVars, gifVars, inputVars, epoch, batch, step,
                   ckptVars, images, stepsIn, consumed, lastStep>>

\* dcgan.py:331  checkpoint.restore(tf.train.latest_checkpoint(dir)): the
\* objects of the checkpoint take the values of the newest snapshot; with no
\* checkpoint written latest_checkpoint is None and nothing is restored
Restore ==
    /\ script = "dcgan"
    /\ pc = "Done"
    /\ IF saved = <<>>
       THEN /\ latest_checkpoint' = None
            /\ UNCHANGED modelVars
       ELSE LET ckpt == saved[Len(saved)]
            IN  /\ latest_checkpoint' = ckpt
                /\ generator' = ckpt.generator
                /\ discriminator' = ckpt.discriminator
                /\ generator_optimizer' = ckpt.generator_optimizer
                /\ discriminator_optimizer' = ckpt.discriminator_optimizer
    /\ pc' = "Restored"
    /\ UNCHANGED <<nmtVars, fnVars, gifVars, inputVars, epoch, batch, step,
                   ckptVars, images, stepsIn, consumed, lastStep>>

\* the positions a sequence of n elements has under enumerate()
Positions(n) == 0..(n - 1)

\* "image_at_epoch_{:04d}.png".format(epoch), dcgan.py:190: the label as
\* four digits, most significant first (longer labels are not modelled)
Filename(label) ==
    <<(label \div 1000) % 10, (label \div 100) % 10, (label \div 10) % 10,
      label % 10>>

\* the order of Python's str on two file names of the same length
RECURSIVE NameBefore(_, _)
NameBefore(a, b) ==
    IF a = <<>> \/ b = <<>>
    THEN a = <<>> /\ b # <<>>
    ELSE \/ a[1] < b[1]
         \/ a[1] = b[1] /\ NameBefore(Tail(a), Tail(b))

\* dcgan.py:342-343  sorted(glob.glob("image*.png")): the names of the image
\* files, smallest first
RECURSIVE sorted(_)
sorted(names) ==
    IF names = {}
    THEN <<>>
    ELSE LET first == CHOOSE a \in names :
                          \A b \in names \ {a} : NameBefore(a, b)
         IN  <<first>> \o sorted(names \ {first})

\* a real number in the form sign * sqrt(sq), which holds the integers and
\* the values 2 * (i ** 0.5)
Real(sign, sq) == [sign |-> sign, sq |-> sq]

\* mutant of round: the value is rounded towards minus infinity
floor(x) ==
    IF x.sign >= 0
    THEN CHOOSE r \in 0..x.sq : r * r <= x.sq /\ x.sq < (r + 1) * (r + 1)
    ELSE 0 - (CHOOSE r \in 0..x.sq : (r - 1) * (r - 1) < x.sq /\ x.sq <= r * r)

\* Python's round(x) of x = sign * sqrt(sq): the nearest integer.  sqrt(sq)
\* is never halfway between two integers, as (r + 1/2)^2 is no integer.
round(x) ==
    x.sign * (CHOOSE r \in 0..x.sq :
                  /\ r = 0 \/ r * r - r < x.sq
                  /\ x.sq <= r * r + r)

\* dcgan.py:346  frame = 2 * (i ** 0.5), that is sqrt(4 * i)
Frame(i) == Real(1, 4 * i)

\* mutant of Appends: a frame as far as the last one is appended again
AppendsAlso(frame, last_frame) == round(frame) >= round(last_frame)

\* dcgan.py:347  if round(frame) > round(last)
Appends(frame, last_frame) == round(frame) > round(last_frame)

\* dcgan.py:335-344  display_image(EPOCHS) opens the last image, the GIF
\* writer is opened, the image files are listed in the order of their names
\* and last = -1; ok = FALSE: one of the library calls raised
GifOpen ==
    /\ script = "dcgan"
    /\ pc = "Restored"
    /\ \E ok \in BOOLEAN :
         IF ok
         THEN /\ writer' = [data |-> <<>>]
              /\ filenames' = sorted({Filename(e) : e \in images})
              /\ last' = Real(-1, 1)
              /\ idx' = 0
              /\ pc' = "Gif"
         ELSE /\ UNCHANGED gifVars
              /\ pc' = "Fault"
    /\ UNCHANGED <<nmtVars, fnVars, latest_checkpoint, inputVars, epoch,
                   batch, step, modelVars, ckptVars, images, stepsIn,
                   consumed, lastStep>>

\* dcgan.py:345-352  one pass of "for i, filename in enumerate(filenames)":
\* the file is read and appended when its frame index rounds to more than
\* that of the frame appended last, and skipped otherwise; ok = FALSE:
\* imread or append_data raised
GifFrame ==
    /\ script = "dcgan"
    /\ pc = "Gif"
    /\ idx \in Positions(Len(filenames))
    /\ idx' = idx + 1
    /\ IF Appends(Frame(idx), last)
       THEN /\ last' = Frame(idx)
            /\ \E ok \in BOOLEAN :
                 IF ok
                 THEN /\ writer' =
                          [data |-> Append(writer.data,
                               [i |-> idx, filename |-> filenames[idx + 1]])]
                      /\ pc' = "Gif"
                 ELSE /\ writer' = writer
                      /\ pc' = "Fault"
       ELSE /\ UNCHANGED <<last, writer>>
            /\ pc' = "Gif"
    /\ UNCHANGED <<nmtVars, fnVars, latest_checkpoint, filenames, inputVars,
                   epoch, batch, step, modelVars, ckptVars, images, stepsIn,
                   consumed, lastStep>>

\* dcgan.py:345, 354  the file names are exhausted: the writer is closed and
\* the GIF is shown
GifClose ==
    /\ script = "dcgan"
    /\ pc = "Gif"
    /\ idx \notin Positions(Len(filenames))
    /\ pc' = "GifDone"
    /\ UNCHANGED <<nmtVars, otherVars, inputVars, epoch, batch, step,
                   modelVars, ckptVars, images, stepsIn, consumed, lastStep>>

\* ------------------------------------------------ nmt_with_attention.py
\* the characters of the modelled sentences: a lower-case and an upper-case
\* letter, the space, two of the punctuation marks, the double quote, a
\* digit and the letter e with an acute accent
Chars == {"a", "B", " ", "?", ",", "\"", "1", "e-acute"}

\* 'May I borrow this book?', nmt_with_attention.py:362
en_sentence ==
    <<"M", "a", "y", " ", "I", " ", "b", "o", "r", "r", "o", "w", " ",
      "t", "h", "i", "s", " ", "b", "o", "o", "k", "?">>

\* the sentences preprocess_sentence is modelled for
Sentences ==
    {en_sentence} \cup UNION {[1..n -> Chars] : n \in 0..MaxSentenceLen}

UpperCase == {"B", "M", "I"}
\* [a-zA-Z]
Letters ==
    {"a", "b", "e", "h", "i", "k", "m", "o", "r", "s", "t", "w", "y"}
        \cup UpperCase
\* [?.!,¿]
Punctuation == {"?", ".", "!", ",", "inverted-?"}

\* str.lower() on one character
lower(c) ==
    CASE c = "B" -> "b" [] c = "M" -> "m" [] c = "I" -> "i" [] OTHER -> c

\* nmt_with_attention.py:82-90  unicode_to_ascii: the canonical
\* decomposition of a character without its combining marks
unicode_to_ascii(c) == IF c = "e-acute" THEN "e" ELSE c

\* str.strip() and str.rstrip(): the spaces at both ends are removed
RECURSIVE lstrip(_)
lstrip(s) ==
    IF s # <<>> /\ s[1] = " " THEN lstrip(Tail(s)) ELSE s
RECURSIVE rstrip(_)
rstrip(s) ==
    IF s # <<>> /\ s[Len(s)] = " "
    THEN rstrip(SubSeq(s, 1, Len(s) - 1))
    ELSE s
strip(s) == lstrip(rstrip(s))

\* re.sub(r"([?.!,¿])", r" \1 ", s)
RECURSIVE PadPunctuation(_)
PadPunctuation(s) ==
    IF s = <<>>
    THEN <<>>
    ELSE (IF s[1] \in Punctuation THEN <<" ", s[1], " ">> ELSE <<s[1]>>)
             \o PadPunctuation(Tail(s))

\* s without the characters of class it starts with
RECURSIVE SkipRun(_, _)
SkipRun(s, class) ==
    IF s # <<>> /\ class[s[1]] THEN SkipRun(Tail(s), class) ELSE s

\* mutant of SubRuns: every character of the class becomes a space of its
\* own, as with the pattern [...] in place of [...]+
RECURSIVE SubEach(_, _)
SubEach(s, class) ==
    IF s = <<>>
    THEN <<>>
    ELSE (IF class[s[1]] THEN <<" ">> ELSE <<s[1]>>)
             \o SubEach(Tail(s), class)

\* re.sub(r"[...]+", " ", s): every longest run of characters of the class
\* becomes one space; class maps a character to TRUE when it is in the class
RECURSIVE SubRuns(_, _)
SubRuns(s, class) ==
    IF s = <<>>
    THEN <<>>
    ELSE IF class[s[1]]
         THEN <<" ">> \o SubRuns(SkipRun(s, class), class)
         ELSE <<s[1]>> \o SubRuns(Tail(s), class)

AllChars == Chars \cup Letters \cup Punctuation
\* [" ]
QuoteOrSpace == [c \in AllChars |-> c \in {"\"", " "}]
\* [^a-zA-Z?.!,¿]
NotKept == [c \in AllChars |-> c \notin Letters \cup Punctuation]

start_token == <<"<", "s", "t", "a", "r", "t", ">">>
end_token == <<"<", "e", "n", "d", ">">>

\* nmt_with_attention.py:93-111  preprocess_sentence(w)
preprocess_sentence(s) ==
    LET lowered == strip([k \in 1..Len(s) |-> lower(s[k])])
        ascii == [k \in 1..Len(lowered) |-> unicode_to_ascii(lowered[k])]
        padded == PadPunctuation(ascii)
        spaced == SubRuns(padded, QuoteOrSpace)
        kept == SubRuns(spaced, NotKept)
        stripped == strip(rstrip(kept))
    IN  start_token \o <<" ">> \o stripped \o <<" ">> \o end_token

\* preprocess_sentence called on a sentence
PreprocessSentence ==
    /\ script = "preprocess_sentence"
    /\ pc = "Idle"
    /\ w' = preprocess_sentence(sentence)
    /\ pc' = "Returned"
    /\ UNCHANGED <<script, num_examples, epoch, batch, ganVars, nmtVars,
                   gifVars, latest_checkpoint, genVars, attnVars, sentence>>

\* a rational number
Frac(num, den) == [num |-> num, den |-> den]
AddFrac(a, b) == Frac(a.num * b.den + b.num * a.den, a.den * b.den)
RECURSIVE SumFrac(_)
SumFrac(s) == IF s = <<>> THEN Frac(0, 1) ELSE AddFrac(s[1], SumFrac(Tail(s)))
EqFrac(a, b) == a.num * b.den = b.num * a.den

\* the exponential of the softmax, taken to the base 2 so that the weights
\* are rational
RECURSIVE Exp(_)
Exp(x) == IF x = 0 THEN 1 ELSE 2 * Exp(x - 1)

\* mutant of softmax: the scores are normalised over the batch axis
softmaxOverBatch(logits, axis) ==
    [b \in 1..Len(logits) |->
        [p \in 1..Len(logits[b]) |->
            Frac(Exp(logits[b][p]),
                 SumSeq([c \in 1..Len(logits) |-> Exp(logits[c][p])]))]]

\* tf.nn.softmax(logits, axis) of a tensor of shape (batch, max_length, 1),
\* held as logits[b][p]: axis 0 is the batch, axis 1 the sequence
softmax(logits, axis) ==
    [b \in 1..Len(logits) |->
        [p \in 1..Len(logits[b]) |->
            Frac(Exp(logits[b][p]),
                 IF axis = 1
                 THEN SumSeq([q \in 1..Len(logits[b]) |-> Exp(logits[b][q])])
                 ELSE SumSeq([c \in 1..Len(logits) |-> Exp(logits[c][p])]))]]

\* nmt_with_attention.py:162-163  score = V(tanh(W1(values) + W2(query))):
\* one score per position.  The hidden size is 1 and the query and the
\* layers' weights are fixed so that the score of a position is the encoder
\* output there.
Score(vals) == vals

\* nmt_with_attention.py:169-170  attention_weights * values, summed over
\* axis 1
WeightedSum(weights, vals) ==
    [b \in 1..Len(vals) |->
        SumFrac([p \in 1..Len(vals[b]) |->
                    Frac(weights[b][p].num * vals[b][p], weights[b][p].den)])]

\* nmt_with_attention.py:152-172  BahdanauAttention.call(query, values)
BahdanauAttentionCall ==
    /\ script = "BahdanauAttention.call"
    /\ pc = "Idle"
    /\ score' = Score(values)
    /\ attention_weights' = softmax(Score(values), 1)
    /\ context_vector' = WeightedSum(softmax(Score(values), 1), values)
    /\ pc' = "Returned"
    /\ UNCHANGED <<script, num_examples, epoch, batch, ganVars, nmtVars,
                   gifVars, latest_checkpoint, genVars, prepVars, values>>

\* the encoder outputs BahdanauAttention.call is modelled for
EncoderOutputs ==
    UNION {[1..b -> [1..n -> 0..MaxValue]] :
              b \in 1..MaxBatch, n \in 1..MaxSeqLen}

\* a Python call with positional arguments only, of a function whose
\* parameters have no defaults: it binds when the counts agree, and raises
\* TypeError otherwise
Binds(params, args) == Len(args) = Len(params)

\* nmt_with_attention.py:214  def loss_function(real, pred, loss_object)
loss_function_params == <<"real", "pred", "loss_object">>
\* nmt_with_attention.py:226  def train_step(inp, targ, targ_lang, encoder,
\*                                           enc_hidden, optimizer, decoder)
train_step_params ==
    <<"inp", "targ", "targ_lang", "encoder", "enc_hidden", "optimizer",
      "decoder">>
\* nmt_with_attention.py:258  def evaluate(sentence, max_length_targ,
\*     max_length_inp, inp_lang, encoder, targ_lang, decoder)
evaluate_params ==
    <<"sentence", "max_length_targ", "max_length_inp", "inp_lang", "encoder",
      "targ_lang", "decoder">>

\* nmt_with_attention.py:242  loss_function(targ[:, t], predictions)
LossCallArgs == <<"targ[:, t]", "predictions">>
\* nmt_with_attention.py:495  train_step(inp, targ, enc_hidden)
TrainStepCallArgs == <<"inp", "targ", "enc_hidden">>
\* nmt_with_attention.py:329  evaluate(sentence)
EvaluateCallArgs == <<"sentence">>

\* nmt_with_attention.py:412-415  from_tensor_slices(..).shuffle(..)
\*     .batch(BATCH_SIZE, drop_remainder=True)
dataset == Batches(num_examples, NMT_BATCH_SIZE, TRUE)
\* nmt_with_attention.py:408
steps_per_epoch == num_examples \div NMT_BATCH_SIZE

NmtExampleCounts ==
    {k * NMT_BATCH_SIZE + r : k \in 0..MaxFullBatches,
                              r \in {0, NMT_BATCH_SIZE - 1}}

\* the target vocabulary: targ_lang.index_word[i] for i in 1..Len; id 0 is
\* the padding and has no word
index_word ==
    <<"<start>", "<end>">> \o [i \in 1..MaxWords |-> <<"w", i>>]
\* targ_lang.word_index[w]
word_index(word) ==
    CHOOSE i \in 1..Len(index_word) : index_word[i] = word
\* nmt_with_attention.py:410  vocab_tar_size = len(targ_lang.word_index) + 1
vocab_tar_size == Len(index_word) + 1
TokenIds == 0..(vocab_tar_size - 1)

\* mutant of Mask: the logical_not is left out
MaskInverted(r) == [i \in 1..Len(r) |-> IF r[i] = 0 THEN 1 ELSE 0]

\* nmt_with_attention.py:216, 219  mask = cast(logical_not(equal(real, 0)))
Mask(r) == [i \in 1..Len(r) |-> IF r[i] = 0 THEN 0 ELSE 1]

\* nmt_with_attention.py:217-220  loss_ = loss_object(real, pred) * mask;
\* x is loss_object(real, pred), one cross-entropy per position
MaskedLoss(r, x) == [i \in 1..Len(r) |-> x[i] * Mask(r)[i]]

\* nmt_with_attention.py:222  tf.reduce_mean(loss_): the sum over the number
\* of elements, kept as the fraction num / den
reduce_mean(v) == [num |-> SumSeq(v), den |-> Len(v)]

\* nmt_with_attention.py:214-222  loss_function called with all three
\* arguments
LossFunction ==
    /\ script = "loss_function"
    /\ pc = "Idle"
    /\ Binds(loss_function_params, <<"real", "pred", "loss_object">>)
    /\ loss_' = MaskedLoss(real, xent)
    /\ mean_loss' = reduce_mean(MaskedLoss(real, xent))
    /\ pc' = "Returned"
    /\ UNCHANGED <<script, num_examples, epoch, batch, ganVars, otherVars,
                   nmtModel, stepVars, decodeVars, real, xent, evalVars>>

\* nmt_with_attention.py:380-417  main() up to the first batch of the
\* dataset: next(iter(dataset)) raises StopIteration when the dataset holds
\* no batch
NmtSetup ==
    /\ script = "nmt"
    /\ pc = "Idle"
    /\ epoch' = 0
    /\ pc' = IF dataset = <<>> THEN "Fault" ELSE "EpochStart"
    /\ UNCHANGED <<script, num_examples, batch, ganVars, otherVars, nmtVars>>

\* nmt_with_attention.py:488-494  for epoch in range(EPOCHS): enc_hidden
\* and total_loss are reset and dataset.take(steps_per_epoch) is iterated
NmtEpochStart ==
    /\ script = "nmt"
    /\ pc = "EpochStart"
    /\ epoch < NMT_EPOCHS
    /\ batch' = 0
    /\ pc' = "BatchStep"
    /\ UNCHANGED <<script, num_examples, epoch, ganVars, otherVars, nmtVars>>

\* nmt_with_attention.py:494-496  the next batch is drawn and
\* train_step(inp, targ, enc_hidden) is called: three arguments for seven
\* parameters
NmtBatchStep ==
    /\ script = "nmt"
    /\ pc = "BatchStep"
    /\ batch < steps_per_epoch
    /\ batch' = batch + 1
    /\ IF Binds(train_step_params, TrainStepCallArgs)
       THEN /\ encoder' = encoder + 1
            /\ decoder' = decoder + 1
            /\ optimizer' = optimizer + 1
            /\ pc' = "BatchStep"
       ELSE /\ UNCHANGED <<encoder, decoder, optimizer>>
            /\ pc' = "Fault"
    /\ UNCHANGED <<script, num_examples, epoch, ganVars, otherVars, stepVars,
                   decodeVars, lossVars, evalVars>>

\* the rows a target batch of width T can hold: '<start>', words, '<end>',
\* then the padding id 0 (tokenize, nmt_with_attention.py:43-54, on the
\* sentences of preprocess_sentence)
TargRows(T) ==
    {row \in [1..T -> TokenIds] :
        /\ row[1] = word_index("<start>")
        /\ \E e \in 2..T :
             /\ row[e] = word_index("<end>")
             /\ \A i \in 2..(e - 1) : row[i] \in 3..Len(index_word)
             /\ \A i \in (e + 1)..T : row[i] = 0}

\* a batch of the dataset, nmt_with_attention.py:415: NMT_BATCH_SIZE rows,
\* of which the first Len(ids) are kept
TargBatches ==
    {[rows |-> NMT_BATCH_SIZE, ids |-> m] :
        m \in UNION {[1..n -> TargRows(T)] :
                        n \in 1..MaxRows, T \in 2..MaxTargLen}}

\* targ.shape[1]
Width(b) == Len(b.ids[1])
\* targ[:, t], t counted from 0
Column(b, i) ==
    [rows |-> b.rows, ids |-> [r \in 1..Len(b.ids) |-> b.ids[r][i + 1]]]

\* nmt_with_attention.py:235  [targ_lang.word_index['<start>']] * BATCH_SIZE
StartInput(b) ==
    [rows |-> NMT_BATCH_SIZE,
     ids |-> [r \in 1..Len(b.ids) |-> word_index("<start>")]]

\* nmt_with_attention.py:247  batch_loss = loss / int(targ.shape[1]), where
\* loss is the sum of the timesteps' losses
BatchLoss(losses, b) == [sum |-> losses, den |-> Width(b)]

\* nmt_with_attention.py:226-235  train_step called with all seven
\* arguments: loss = 0, the encoder runs, the decoder's first input is the
\* column of '<start>'
TrainStepCall ==
    /\ script = "train_step"
    /\ pc = "Idle"
    /\ Binds(train_step_params, train_step_params)
    /\ loss' = <<>>
    /\ dec_input' = StartInput(targ)
    /\ t' = 1
    /\ pc' = "Decode"
    /\ UNCHANGED <<script, num_examples, epoch, batch, ganVars, otherVars,
                   nmtModel, targ, batch_loss, dec_inputs, lossVars, evalVars>>

\* nmt_with_attention.py:238-255  one pass of
\* "for t in range(1, targ.shape[1])": the decoder is called with dec_input,
\* then loss_function(targ[:, t], predictions) is called with two arguments
\* for three parameters.  Were the call to bind, the timestep's loss would be
\* added, targ[:, t] would become the next input, and after the last pass
\* batch_loss would be computed and the optimizer would update both models.
TrainStepDecode ==
    /\ script = "train_step"
    /\ pc = "Decode"
    /\ t < Width(targ)
    /\ dec_inputs' = Append(dec_inputs, dec_input)
    /\ IF Binds(loss_function_params, LossCallArgs)
       THEN /\ \E x \in [1..Len(targ.ids) -> 0..MaxXent] :
                 loss' = Append(loss,
                     reduce_mean(MaskedLoss(Column(targ, t).ids, x)))
            /\ dec_input' = Column(targ, t)
            /\ t' = t + 1
            /\ IF t + 1 < Width(targ)
               THEN /\ pc' = "Decode"
                    /\ UNCHANGED <<batch_loss, nmtModel>>
               ELSE /\ batch_loss' = BatchLoss(loss', targ)
                    /\ encoder' = encoder + 1
                    /\ decoder' = decoder + 1
                    /\ optimizer' = optimizer + 1
                    /\ pc' = "Returned"
       ELSE /\ pc' = "Fault"
            /\ UNCHANGED <<loss, dec_input, t, batch_loss, nmtModel>>
    /\ UNCHANGED <<script, num_examples, epoch, batch, ganVars, otherVars,
                   targ, lossVars, evalVars>>

\* nmt_with_attention.py:327-329  translate(sentence) calls
\* evaluate(sentence): one argument for seven parameters
Translate ==
    /\ script = "translate"
    /\ pc = "Idle"
    /\ pc' = IF Binds(evaluate_params, EvaluateCallArgs)
             THEN "Decode" ELSE "Fault"
    /\ UNCHANGED <<script, num_examples, epoch, batch, ganVars, otherVars,
                   nmtVars>>

\* mutant of MoreToDecode: the loop runs once more than range() allows
MoreToDecodeInclusive(i, n) == i <= n

\* nmt_with_attention.py:278  "for t in range(max_length_targ)" has another
\* value to yield after i of them
MoreToDecode(i, n) == i < n

\* mutant of Evaluate: a word that is not in inp_lang.word_index is skipped
EvaluateSkipsUnknown ==
    /\ script = "evaluate"
    /\ pc = "Idle"
    /\ dec_input' = word_index("<start>")
    /\ pc' = "Decode"
    /\ t' = 0
    /\ result' = <<>>
    /\ UNCHANGED <<script, num_examples, epoch, batch, ganVars, otherVars,
                   nmtModel, stepVars, dec_inputs, lossVars, max_length_targ,
                   words_known>>

\* nmt_with_attention.py:258-276  evaluate called with all seven arguments:
\* the sentence is preprocessed and its words are looked up in
\* inp_lang.word_index (KeyError for a word that is not there), the encoder
\* runs and the decoder's first input is '<start>'
Evaluate ==
    /\ script = "evaluate"
    /\ pc = "Idle"
    /\ Binds(evaluate_params, evaluate_params)
    /\ IF words_known
       THEN /\ dec_input' = word_index("<start>")
            /\ pc' = "Decode"
       ELSE /\ dec_input' = dec_input
            /\ pc' = "Fault"
    /\ t' = 0
    /\ result' = <<>>
    /\ UNCHANGED <<script, num_examples, epoch, batch, ganVars, otherVars,
                   nmtModel, stepVars, dec_inputs, lossVars, max_length_targ,
                   words_known>>

\* nmt_with_attention.py:278-297  one pass of "for t in range(max_length_targ)":
\* the decoder is called with dec_input, predicted_id is the arg-max of its
\* vocab_tar_size logits, its word (KeyError for id 0, which has none) is
\* appended to result, and the loop returns on '<end>' or feeds the id back
EvaluateStep ==
    /\ script = "evaluate"
    /\ pc = "Decode"
    /\ MoreToDecode(t, max_length_targ)
    /\ dec_inputs' = Append(dec_inputs, dec_input)
    /\ \E predicted_id \in TokenIds :
         IF predicted_id \notin 1..Len(index_word)
         THEN /\ pc' = "Fault"
              /\ UNCHANGED <<result, dec_input, t>>
         ELSE /\ result' = Append(result, index_word[predicted_id])
              /\ IF index_word[predicted_id] = "<end>"
                 THEN /\ pc' = "Returned"
                      /\ UNCHANGED <<dec_input, t>>
                 ELSE /\ dec_input' = predicted_id
                      /\ t' = t + 1
                      /\ pc' = "Decode"
    /\ UNCHANGED <<script, num_examples, epoch, batch, ganVars, otherVars,
                   nmtModel, stepVars, lossVars, max_length_targ, words_known>>

\* nmt_with_attention.py:278, 299  range(max_length_targ) is exhausted and
\* evaluate returns what it has
EvaluateExhausted ==
    /\ script = "evaluate"
    /\ pc = "Decode"
    /\ ~MoreToDecode(t, max_length_targ)
    /\ pc' = "Returned"
    /\ UNCHANGED <<script, num_examples, epoch, batch, ganVars, otherVars,
                   nmtVars>>

\* ------------------------------------------------------------ the system
GanIdle ==
    /\ shape_ok = TRUE
    /\ epochs = 0
    /\ step = None
    /\ generator = 0
    /\ discriminator = 0
    /\ generator_optimizer = 0
    /\ discriminator_optimizer = 0
    /\ save_counter = 0
    /\ saved = <<>>
    /\ images = {}
    /\ stepsIn = <<>>
    /\ consumed = <<>>
    /\ lastStep = None
    /\ latest_checkpoint = Unset
    /\ filenames = <<>>
    /\ idx = 0
    /\ last = Unset
    /\ writer = Unset

FnIdle ==
    /\ noise = Unset
    /\ output_shape = <<>>
    /\ generated_image = Unset
    /\ values = Unset
    /\ score = <<>>
    /\ attention_weights = <<>>
    /\ context_vector = <<>>
    /\ sentence = Unset
    /\ w = <<>>

NmtIdle ==
    /\ encoder = 0
    /\ decoder = 0
    /\ optimizer = 0
    /\ targ = <<>>
    /\ t = 0
    /\ dec_input = None
    /\ loss = <<>>
    /\ batch_loss = None
    /\ dec_inputs = <<>>
    /\ real = <<>>
    /\ xent = <<>>
    /\ loss_ = None
    /\ mean_loss = None
    /\ max_length_targ = 0
    /\ words_known = TRUE
    /\ result = <<>>

\* dcgan.py:203-250  main() has built the dataset, the models, the
\* optimizers and the checkpoint object
InitDcgan ==
    /\ script = "dcgan"
    /\ num_examples \in ExampleCounts
    /\ shape_ok \in BOOLEAN
    /\ epochs \in EpochArgs
    /\ step = None
    /\ generator = 0
    /\ discriminator = 0
    /\ generator_optimizer = 0
    /\ discriminator_optimizer = 0
    /\ save_counter = 0
    /\ saved = <<>>
    /\ images = {}
    /\ stepsIn = [e \in 1..epochs |-> 0]
    /\ consumed = <<>>
    /\ lastStep = None
    /\ latest_checkpoint = Unset
    /\ filenames = <<>>
    /\ idx = 0
    /\ last = Unset
    /\ writer = Unset
    /\ NmtIdle
    /\ FnIdle

\* nmt_with_attention.py:338-380  main() before the dataset is loaded
InitNmt ==
    /\ script = "nmt"
    /\ num_examples \in NmtExampleCounts
    /\ GanIdle
    /\ FnIdle
    /\ NmtIdle

\* translate(sentence) for some sentence
InitTranslate ==
    /\ script = "translate"
    /\ num_examples = 0
    /\ GanIdle
    /\ FnIdle
    /\ NmtIdle

\* train_step(inp, targ, targ_lang, encoder, enc_hidden, optimizer, decoder)
\* for a target batch of the dataset
InitTrainStep ==
    /\ script = "train_step"
    /\ num_examples = 0
    /\ GanIdle
    /\ FnIdle
    /\ targ \in TargBatches
    /\ encoder = 0
    /\ decoder = 0
    /\ optimizer = 0
    /\ t = 0
    /\ dec_input = None
    /\ loss = <<>>
    /\ batch_loss = None
    /\ dec_inputs = <<>>
    /\ real = <<>>
    /\ xent = <<>>
    /\ loss_ = None
    /\ mean_loss = None
    /\ max_length_targ = 0
    /\ words_known = TRUE
    /\ result = <<>>

\* loss_function(real, pred, loss_object) for a timestep of 1..MaxRows
\* target ids and any cross-entropies 0..MaxXent of the predictions
InitLossFunction ==
    /\ script = "loss_function"
    /\ num_examples = 0
    /\ GanIdle
    /\ FnIdle
    /\ \E n \in 1..MaxRows :
         /\ real \in [1..n -> TokenIds]
         /\ xent \in [1..n -> 0..MaxXent]
    /\ encoder = 0
    /\ decoder = 0
    /\ optimizer = 0
    /\ targ = <<>>
    /\ t = 0
    /\ dec_input = None
    /\ loss = <<>>
    /\ batch_loss = None
    /\ dec_inputs = <<>>
    /\ loss_ = <<>>
    /\ mean_loss = None
    /\ max_length_targ = 0
    /\ words_known = TRUE
    /\ result = <<>>

\* evaluate(sentence, max_length_targ, ...) for some sentence
InitEvaluate ==
    /\ script = "evaluate"
    /\ num_examples = 0
    /\ GanIdle
    /\ FnIdle
    /\ max_length_targ \in 1..MaxLengthTarg
    /\ words_known \in BOOLEAN
    /\ encoder = 0
    /\ decoder = 0
    /\ optimizer = 0
    /\ targ = <<>>
    /\ t = 0
    \* dec_input is bound at line 276; it then holds a token id
    /\ dec_input = 0
    /\ loss = <<>>
    /\ batch_loss = None
    /\ dec_inputs = <<>>
    /\ real = <<>>
    /\ xent = <<>>
    /\ loss_ = None
    /\ mean_loss = None
    /\ result = <<>>

\* make_generator_model() and the generator's call on a noise batch
InitMakeGeneratorModel ==
    /\ script = "make_generator_model"
    /\ num_examples = 0
    /\ GanIdle
    /\ NmtIdle
    /\ noise \in NoiseShapes
    /\ output_shape = <<>>
    /\ generated_image = Unset
    /\ values = Unset
    /\ score = <<>>
    /\ attention_weights = <<>>
    /\ context_vector = <<>>
    /\ sentence = Unset
    /\ w = <<>>

\* BahdanauAttention.call(query, values) for an encoder output
InitBahdanauAttention ==
    /\ script = "BahdanauAttention.call"
    /\ num_examples = 0
    /\ GanIdle
    /\ NmtIdle
    /\ values \in EncoderOutputs
    /\ noise = Unset
    /\ output_shape = <<>>
    /\ generated_image = Unset
    /\ score = <<>>
    /\ attention_weights = <<>>
    /\ context_vector = <<>>
    /\ sentence = Unset
    /\ w = <<>>

\* preprocess_sentence(w) for a sentence
InitPreprocessSentence ==
    /\ script = "preprocess_sentence"
    /\ num_examples = 0
    /\ GanIdle
    /\ NmtIdle
    /\ sentence \in Sentences
    /\ noise = Unset
    /\ output_shape = <<>>
    /\ generated_image = Unset
    /\ values = Unset
    /\ score = <<>>
    /\ attention_weights = <<>>
    /\ context_vector = <<>>
    /\ w = <<>>

Init ==
    /\ pc = "Idle"
    /\ epoch = 0
    /\ batch = 0
    /\ \/ InitDcgan
       \/ InitNmt
       \/ InitTranslate
       \/ InitTrainStep
       \/ InitLossFunction
       \/ InitEvaluate
       \/ InitMakeGeneratorModel
       \/ InitBahdanauAttention
       \/ InitPreprocessSentence

Next ==
    \/ Train
    \/ EpochStart
    \/ TrainStepTape
    \/ TrainStepApply
    \/ EndOfDataset
    \/ EpochEnd
    \/ Checkpoint
    \/ EpochTail
    \/ FinalImage
    \/ Restore
    \/ GifOpen
    \/ GifFrame
    \/ GifClose
    \/ NmtSetup
    \/ NmtEpochStart
    \/ NmtBatchStep
    \/ TrainStepCall
    \/ TrainStepDecode
    \/ Translate
    \/ LossFunction
    \/ Evaluate
    \/ EvaluateStep
    \/ EvaluateExhausted
    \/ MakeGeneratorModel
    \/ GeneratorCall
    \/ BahdanauAttentionCall
    \/ PreprocessSentence

Spec == Init /\ [][Next]_vars

\* the steps of dcgan.py's main()
DcganNext ==
    \/ Train
    \/ EpochStart
    \/ TrainStepTape
    \/ TrainStepApply
    \/ EndOfDataset
    \/ EpochEnd
    \/ Checkpoint
    \/ EpochTail
    \/ FinalImage
    \/ Restore
    \/ GifOpen
    \/ GifFrame
    \/ GifClose

\* the steps of evaluate
EvaluateNext ==
    \/ Evaluate
    \/ EvaluateStep
    \/ EvaluateExhausted

\* a script that can take a step takes one: main() of dcgan.py and evaluate
\* run to their end
FairSpec == Spec /\ WF_vars(DcganNext) /\ WF_vars(EvaluateNext)

\* ------------------------------------------------------------ the claims
\* positions of train() inside an epoch
InEpoch == {"BatchStep", "Apply", "EpochEnd", "Checkpoint", "EpochTail"}
\* epochs whose checkpoint has been written
SavedEpochs == {saved[k].epoch : k \in 1..Len(saved)}
\* train steps of the current epoch that were started
Started == SumSeq(consumed)

\* C1: in dcgan.train the image of epoch e is emitted only after all batch
\* steps of epoch e are complete, the checkpoint of epoch e is saved only
\* after that image, no batch step of epoch e + 1 starts before the image
\* and (when one is due) the checkpoint of epoch e, and at most one batch
\* step is in progress at any time.
C1_EpochOrder ==
    script = "dcgan" =>
        /\ \A e \in 1..epochs :
             e \in images => stepsIn[e] = Len(train_dataset)
        /\ SavedEpochs \subseteq images
        /\ \A e \in 1..(epochs - 1) :
             (stepsIn[e + 1] > 0 \/ (epoch = e /\ step # None)) =>
                 /\ e \in images
                 /\ SaveDue(e) => e \in SavedEpochs
        /\ pc \in InEpoch =>
             Started - stepsIn[epoch + 1] = (IF pc = "Apply" THEN 1 ELSE 0)
        /\ (step # None) <=> (pc = "Apply")

\* a batch step of the epoch after a checkpointed one is in progress
C1_Witness ==
    /\ script = "dcgan"
    /\ pc = "Apply"
    /\ epoch = SAVE_EVERY
    /\ batch = 2
    /\ SAVE_EVERY \in SavedEpochs

\* C2: every batch step of the NMT main loop performs one optimizer update
\* (and returns a batch loss), so that the updates performed equal the batch
\* steps invoked; and translate obtains a result from evaluate.
C2_EveryBatchStepUpdates ==
    /\ script = "nmt" => optimizer = epoch * steps_per_epoch + batch
    /\ script = "translate" => pc # "Fault"

\* C3: a dcgan batch step applies both updates or none: outside a step both
\* models have received the same number of updates, and the two gradients a
\* step applies were both taken from the parameter values at its entry,
\* before either update.
C3_AtomicStep ==
    script = "dcgan" /\ pc # "Done" /\ latest_checkpoint = Unset =>
        /\ pc # "Apply" =>
             /\ generator = discriminator
             /\ generator_optimizer = discriminator_optimizer
             /\ generator = generator_optimizer
        /\ pc = "Apply" =>
             /\ step.gradients_of_generator
                    = [gen |-> generator, disc |-> discriminator]
             /\ step.gradients_of_discriminator
                    = [gen |-> generator, disc |-> discriminator]
        /\ (lastStep # None /\ pc # "Apply") =>
             /\ lastStep.gradients_of_generator
                    = [gen |-> generator - 1, disc |-> discriminator - 1]
             /\ lastStep.gradients_of_discriminator
                    = [gen |-> generator - 1, disc |-> discriminator - 1]

\* a second step has been applied
C3_Witness ==
    /\ script = "dcgan"
    /\ pc = "BatchStep"
    /\ lastStep # None
    /\ generator = 2
    /\ discriminator = 2

\* when train has returned it has run exactly epochs epochs and epochs x B
\* train steps (B the number of batches); no epoch beyond the count is
\* started
C4_Counts ==
    script = "dcgan" =>
        /\ pc \in InEpoch => epoch < epochs
        /\ epoch <= epochs
        /\ pc = "Done" =>
             /\ epoch = epochs
             /\ generator = epochs * Len(train_dataset)
             /\ \A e \in 1..epochs : stepsIn[e] = Len(train_dataset)

Completed ==
    IF pc = "EpochTail" THEN epoch + 1 ELSE epoch

\* the checkpoints written are those of the multiples of the interval, and
\* after e complete epochs the save counter is e div interval
C5_SaveCounter ==
    script = "dcgan" =>
        /\ save_counter = Len(saved)
        /\ \A k \in 1..Len(saved) : saved[k].epoch = k * SAVE_EVERY
        /\ pc # "Fault" => save_counter = Completed \div SAVE_EVERY

GanUpdate ==
    /\ pc = "Apply"
    /\ generator' = generator + 1
    /\ generator_optimizer' = generator_optimizer + 1
    /\ discriminator' = discriminator + 1
    /\ discriminator_optimizer' = discriminator_optimizer + 1

\* this step is checkpoint.restore taking the newest snapshot
GanRestore ==
    /\ pc = "Done"
    /\ saved # <<>>
    /\ generator' = saved[Len(saved)].generator
    /\ discriminator' = saved[Len(saved)].discriminator
    /\ generator_optimizer' = saved[Len(saved)].generator_optimizer
    /\ discriminator_optimizer' = saved[Len(saved)].discriminator_optimizer

C7_FixedSize ==
    (script = "dcgan" /\ step # None) =>
        /\ step.images_n = BATCH_SIZE
        /\ step.noise_n = step.images_n

\* C7 as amended: a dcgan batch holds BATCH_SIZE examples, except that the
\* last batch of an epoch holds the remainder when the number of examples is
\* no multiple of BATCH_SIZE, while the noise batch always holds BATCH_SIZE;
\* every NMT batch holds exactly 64 pairs, as many as the start-token input
\* of train_step; and in an epoch each batch is handed to a training step at
\* most once, and exactly once when the epoch's loop is through.
C7_BatchSizes ==
    /\ (script = "dcgan" /\ step # None) =>
         /\ step.noise_n = BATCH_SIZE
         /\ step.images_n =
              (IF batch * BATCH_SIZE <= num_examples
               THEN BATCH_SIZE ELSE num_examples % BATCH_SIZE)
         /\ step.images_n \in 1..BATCH_SIZE
    /\ (script = "dcgan" /\ pc \in InEpoch) =>
         /\ \A i \in 1..Len(consumed) :
              consumed[i] = (IF i <= batch THEN 1 ELSE 0)
         /\ pc \in {"EpochEnd", "Checkpoint", "EpochTail"} =>
              batch = Len(train_dataset)
    /\ script = "nmt" =>
         /\ \A i \in 1..Len(dataset) : dataset[i] = NMT_BATCH_SIZE
         /\ batch <= steps_per_epoch
    /\ (script = "train_step" /\ dec_inputs # <<>>) =>
         /\ dec_inputs[1].rows = NMT_BATCH_SIZE
         /\ dec_inputs[1].rows = targ.rows

\* the remainder batch is in a train step after a full one
C7_Witness ==
    /\ script = "dcgan"
    /\ step # None
    /\ batch = 2
    /\ step.images_n = BUFFER_SIZE % BATCH_SIZE
    /\ step.noise_n = BATCH_SIZE

\* the decoder calls of evaluate and the result they build
C8_Decoding ==
    script = "evaluate" =>
        /\ Len(dec_inputs) <= max_length_targ
        /\ Len(result) <= Len(dec_inputs)
        /\ Len(result) <= max_length_targ
        /\ dec_inputs # <<>> => dec_inputs[1] = word_index("<start>")
        /\ \A i \in 2..Len(dec_inputs) :
             index_word[dec_inputs[i]] = result[i - 1]
        /\ \A i \in 1..(Len(result) - 1) : result[i] # "<end>"
        /\ (result # <<>> /\ result[Len(result)] = "<end>") =>
             /\ pc = "Returned"
             /\ Len(dec_inputs) = Len(result)
        /\ pc \in {"Returned", "Fault"} => ~ENABLED Next

\* C8: greedy decoding stops: the decoder is called at most max_length_targ
\* times, never again after a step that predicted '<end>'; its first input is
\* '<start>' and each later input is the token predicted one step before; so
\* the result holds at most max_length_targ tokens, with '<end>' at most as
\* the last.
C8_GreedyTerminates ==
    /\ []C8_Decoding
    /\ script = "evaluate" => <>(pc = "Returned" \/ pc = "Fault")

\* evaluate has returned a result of full length in which no '<end>' occurs
C8_Witness ==
    /\ script = "evaluate"
    /\ pc = "Returned"
    /\ max_length_targ = MaxLengthTarg
    /\ Len(result) = max_length_targ
    /\ Len(dec_inputs) = max_length_targ
    /\ \A i \in 1..Len(result) : result[i] # "<end>"

\* the positions of a timestep that are no padding
Unmasked(r) == {i \in 1..Len(r) : r[i] # 0}
\* the sum of x over the positions of S
SumOver(x, S) == SumSeq([i \in 1..Len(x) |-> IF i \in S THEN x[i] ELSE 0])

\* C9: in loss_function every position whose target id is 0 carries the
\* loss 0 whatever was predicted, every other position keeps its
\* cross-entropy, and so only those enter the reduction.
C9_MaskedLoss ==
    (script = "loss_function" /\ pc = "Returned") =>
        /\ \A i \in 1..Len(real) :
             loss_[i] = (IF real[i] = 0 THEN 0 ELSE xent[i])
        /\ mean_loss.num = SumOver(xent, Unmasked(real))

\* a padding position and a word position, both with a positive
\* cross-entropy
C9_Witness ==
    /\ script = "loss_function"
    /\ pc = "Returned"
    /\ \E i, j \in 1..Len(real) :
         /\ real[i] = 0
         /\ xent[i] > 0
         /\ real[j] # 0
         /\ xent[j] > 0
         /\ loss_[i] = 0
         /\ loss_[j] = xent[j]

\* C10: the loss of a timestep is the mean of the cross-entropy over the
\* positions that are no padding (their sum divided by their number), and
\* train_step divides the sum of its timesteps' losses by the number of
\* timesteps it summed.
C10_MeanOverUnmasked ==
    /\ (script = "loss_function" /\ pc = "Returned"
            /\ Unmasked(real) # {}) =>
         mean_loss.num * Cardinality(Unmasked(real))
             = SumOver(xent, Unmasked(real)) * mean_loss.den
    /\ (script = "train_step" /\ pc = "Returned") =>
         batch_loss.den = Len(batch_loss.sum)

\* the positions of the files that the GIF loop has appended
Appended == {writer.data[k].i : k \in 1..Len(writer.data)}
\* the positions whose pass of the GIF loop is complete
Visited == IF pc = "Fault" THEN Positions(idx - 1) ELSE Positions(idx)
\* the rounded frame index of the last file appended before position p, or
\* that of last = -1
RoundedBefore(p) ==
    LET earlier == {q \in Appended : q < p}
    IN  IF earlier = {}
        THEN 0 - 1
        ELSE round(Frame(CHOOSE q \in earlier : \A o \in earlier : o <= q))

\* C11: the GIF loop visits the image files in the order of their names and
\* appends the file at position i exactly when round(2 * sqrt(i)) is greater
\* than the rounded index of the frame appended last; so the file at
\* position 0 is always appended and the rounded indices of the appended
\* frames increase strictly.
C11_FrameRule ==
    (script = "dcgan" /\ writer # Unset) =>
        /\ \A j, k \in 1..Len(filenames) :
             j < k => NameBefore(filenames[j], filenames[k])
        /\ \A k \in 1..Len(writer.data) :
             /\ writer.data[k].i \in Visited
             /\ writer.data[k].filename = filenames[writer.data[k].i + 1]
        /\ \A p \in Visited :
             p \in Appended <=> round(Frame(p)) > RoundedBefore(p)
        /\ Visited # {} => (writer.data # <<>> /\ writer.data[1].i = 0)
        /\ \A j, k \in 1..Len(writer.data) :
             j < k => /\ writer.data[j].i < writer.data[k].i
                      /\ round(Frame(writer.data[j].i))
                             < round(Frame(writer.data[k].i))

\* the loop is through files of which some were appended and some skipped
C11_Witness ==
    /\ script = "dcgan"
    /\ pc = "GifDone"
    /\ Len(filenames) = MaxEpochsArg
    /\ Len(writer.data) > 2
    /\ Len(writer.data) < Len(filenames)
    /\ 3 \notin Appended

\* C12: a fault ends the run: in the fault state no step is possible, so no
\* batch step, checkpoint, image or translation follows it; a batch that
\* does not fit the models faults in the first batch step of the first
\* epoch, before any update, image or checkpoint, and evaluate faults on a word that is not in
\* the input vocabulary before the decoder is called.
C12_FaultFinal ==
    /\ pc = "Fault" => ~ENABLED Next
    /\ (script = "dcgan" /\ ~shape_ok /\ train_dataset # <<>>
            /\ epochs > 0) =>
         /\ pc \in {"Idle", "EpochStart", "BatchStep", "Fault"}
         /\ batch <= 1
         /\ batch = 1 => pc = "Fault"
         /\ generator = 0
         /\ discriminator = 0
         /\ images = {}
         /\ saved = <<>>
    /\ (script = "evaluate" /\ ~words_known /\ pc # "Idle") =>
         /\ pc = "Fault"
         /\ dec_inputs = <<>>
         /\ result = <<>>

\* a checkpoint write has raised after an earlier one was saved
C12_Witness ==
    /\ script = "dcgan"
    /\ pc = "Fault"
    /\ epoch + 1 = 2 * SAVE_EVERY
    /\ save_counter = 1
    /\ (epoch + 1) \in images

\* C13: BahdanauAttention.call takes the softmax of the scores over axis 1:
\* for every batch element the attention weights are not negative, are in
\* the proportion of the exponentials of the scores of that element and sum
\* to 1 over the positions, and the context vector is the sum over the
\* positions of weight times encoder output.
C13_SoftmaxAxis ==
    (script = "BahdanauAttention.call" /\ pc = "Returned") =>
        \A b \in 1..Len(values) :
            /\ Len(attention_weights[b]) = Len(values[b])
            /\ \A p \in 1..Len(values[b]) :
                 /\ attention_weights[b][p].den > 0
                 /\ attention_weights[b][p].num >= 0
                 /\ \A q \in 1..Len(values[b]) :
                      Exp(score[b][q]) * attention_weights[b][p].num
                          * attention_weights[b][q].den
                        = Exp(score[b][p]) * attention_weights[b][q].num
                          * attention_weights[b][p].den
            /\ EqFrac(SumFrac(attention_weights[b]), Frac(1, 1))
            /\ context_vector[b].num
                   * SumSeq([p \in 1..Len(values[b]) |-> Exp(score[b][p])])
                 = context_vector[b].den
                   * SumSeq([p \in 1..Len(values[b]) |->
                                Exp(score[b][p]) * values[b][p]])

\* a batch of two elements whose scores differ between the elements and
\* between the positions
C13_Witness ==
    /\ script = "BahdanauAttention.call"
    /\ pc = "Returned"
    /\ Len(values) = 2
    /\ Len(values[1]) = 2
    /\ score[1] # score[2]
    /\ score[1][1] # score[1][2]
    /\ attention_weights[1][1] # attention_weights[1][2]

\* C14: make_generator_model builds its model with all four asserts on the
\* output shape holding, (None,7,7,256), (None,7,7,128), (None,14,14,64) and
\* (None,28,28,1); the model maps a noise batch of shape (1,100) to an
\* output of shape (1,28,28,1), every value of which lies in [-1,1].
C14_GeneratorShapes ==
    script = "make_generator_model" =>
        /\ pc # "Idle" =>
             output_shape = << Shape(<<>>, <<7, 7, 256>>),
                               Shape(<<>>, <<7, 7, 128>>),
                               Shape(<<>>, <<14, 14, 64>>),
                               Shape(<<>>, <<28, 28, 1>>) >>
        /\ noise = Shape(<<1>>, <<100>>) =>
             /\ pc # "Fault"
             /\ pc = "Returned" =>
                  /\ generated_image.shape = Shape(<<1>>, <<28, 28, 1>>)
                  /\ \A v \in generated_image.values :
                       /\ v.den > 0
                       /\ 0 - v.den <= v.num
                       /\ v.num <= v.den

\* the generator has returned an image for the noise of shape (1,100) with
\* values at both ends of the range
C14_Witness ==
    /\ script = "make_generator_model"
    /\ pc = "Returned"
    /\ noise = Shape(<<1>>, <<100>>)
    /\ generated_image.shape = Shape(<<1>>, <<28, 28, 1>>)
    /\ Cardinality(generated_image.values) = Cardinality(PreActivations)

\* '<start> may i borrow this book ? <end>'
en_preprocessed ==
    start_token
        \o <<" ", "m", "a", "y", " ", "i", " ", "b", "o", "r", "r", "o", "w",
             " ", "t", "h", "i", "s", " ", "b", "o", "o", "k", " ", "?", " ">>
        \o end_token

\* the sentence holds a letter or a punctuation mark that preprocess_sentence
\* keeps
HasKept(s) ==
    \E k \in 1..Len(s) :
        unicode_to_ascii(lower(s[k])) \in Letters \cup Punctuation

\* r is lower-cased, starts with '<start> ', ends with ' <end>', has every
\* punctuation mark between two spaces and has no two spaces in a row
WellFormed(r) ==
    /\ \A k \in 1..Len(r) : r[k] \notin UpperCase
    /\ Len(r) > Len(start_token) + Len(end_token)
    /\ SubSeq(r, 1, Len(start_token) + 1) = start_token \o <<" ">>
    /\ SubSeq(r, Len(r) - Len(end_token), Len(r)) = <<" ">> \o end_token
    /\ \A k \in 1..Len(r) :
         r[k] \in {"?", ".", "!", ","} =>
             /\ r[k - 1] = " "
             /\ r[k + 1] = " "
    /\ \A k \in 1..(Len(r) - 1) : ~(r[k] = " " /\ r[k + 1] = " ")

\* C15 as stated: preprocess_sentence turns 'May I borrow this book?' into
\* '<start> may i borrow this book ? <end>', and its result is always
\* lower-cased, starts with '<start> ', ends with ' <end>', has the
\* punctuation marks separated from the words by a single space and has no
\* run of two or more spaces.
C15_AsStated ==
    (script = "preprocess_sentence" /\ pc = "Returned") =>
        /\ sentence = en_sentence => w = en_preprocessed
        /\ WellFormed(w)

\* C15 as amended: the same for every sentence that holds a letter or one of
\* the punctuation marks; for a sentence that holds none the result is
\* '<start>  <end>', with two spaces between the tokens.
C15_Preprocess ==
    (script = "preprocess_sentence" /\ pc = "Returned") =>
        /\ sentence = en_sentence => w = en_preprocessed
        /\ HasKept(sentence) => WellFormed(w)
        /\ ~HasKept(sentence) => w = start_token \o <<" ", " ">> \o end_token

\* the sentence of main() has been preprocessed
C15_Witness ==
    /\ script = "preprocess_sentence"
    /\ pc = "Returned"
    /\ sentence = en_sentence
    /\ HasKept(sentence)
    /\ w = en_preprocessed

\* C16: train_step calls the decoder exactly T - 1 times for a target of
\* width T, the first time with '<start>' for every element of the batch and
\* at every later step t with the true tokens targ[:, t - 1], never with a
\* prediction.
C16_TeacherForcing ==
    script = "train_step" =>
        /\ pc \in {"Returned", "Fault"} =>
             Len(dec_inputs) = Width(targ) - 1
        /\ dec_inputs # <<>> => dec_inputs[1] = StartInput(targ)
        /\ \A k \in 2..Len(dec_inputs) : dec_inputs[k] = Column(targ, k - 1)

\* the last epoch before the end of training whose checkpoint was due
LastSavedEpoch == (epochs \div SAVE_EVERY) * SAVE_EVERY
\* the four objects of the checkpoint are as after e epochs of training
StateAfterEpoch(e) ==
    /\ generator = e * Len(train_dataset)
    /\ discriminator = e * Len(train_dataset)
    /\ generator_optimizer = e * Len(train_dataset)
    /\ discriminator_optimizer = e * Len(train_dataset)

C18_FramesOfFullRun ==
    (script = "dcgan" /\ epochs = EPOCHS /\ pc = "GifDone") =>
        /\ Len(filenames) = EPOCHS
        /\ \A e \in 1..EPOCHS : filenames[e] = Filename(e)
        /\ Len(writer.data) = 14
        /\ writer.data[Len(writer.data)].i = 46
        /\ writer.data[Len(writer.data)].filename = Filename(47)
        /\ (EPOCHS - 1) \notin Appended

\* the GIF of the run of 50 epochs is complete
C18_Witness ==
    /\ script = "dcgan"
    /\ epochs = EPOCHS
    /\ pc = "GifDone"
    /\ Len(train_dataset) = 3
    /\ Len(filenames) = EPOCHS
    /\ Appended # {}

====
